---------------------------- MODULE Spec2Model ----------------------------
(***************************************************************************)
(* Model of Worksheet1/ecm3423_ws1.py: a pygame/OpenGL immediate-mode      *)
(* scene.  The state is the Scene's model list, the module globals         *)
(* x_offset, y_offset, z_offset, deltaTime and gameClock, the position of  *)
(* Scene.run() in its loop, and the part of the OpenGL context the drawing *)
(* code uses: the modelview matrix stack and the current colour.  Every GL *)
(* call a draw pass makes is appended to a call log together with the      *)
(* context it leaves behind.                                               *)
(*                                                                         *)
(* Numbers.  The program computes in floating point; the model computes    *)
(* the same expressions exactly.  A number is <<a, b, d>>, standing for    *)
(* (a + b*sqrt(2)) / d with d > 0 and gcd(a, b, d) = 1, which is closed    *)
(* under the sums and products the program forms from its decimal literals *)
(* and from the sines and cosines of multiples of 45 degrees.              *)
(***************************************************************************)
EXTENDS Integers, Sequences, FiniteSets, TLC

VARIABLES
    models,      \* Scene.models
    x_offset,    \* module global x_offset
    y_offset,    \* module global y_offset
    z_offset,    \* module global z_offset
    deltaTime,   \* module global deltaTime
    gameClock,   \* what gameClock.get_time() returns, in milliseconds
    running,     \* the local variable running of Scene.run()
    pc,          \* where the program is: setup, or a step of run()'s loop
    gl,          \* the OpenGL context: matrix stack and current colour
    log,         \* the GL calls of the most recent Scene.draw()
    keys,        \* the key state the most recent handleInput() read
    frame,       \* number of iterations of run()'s loop started
    ops,         \* number of calls made on the scene so far
    inputs,      \* number of handleInput() calls so far
    inputPan,    \* Pan State the most recent handleInput() left
    prevInputPan,\* Pan State the handleInput() before that one left
    upRun,       \* the latest calls of handleInput() with K_UP alone held
                 \* and one deltaTime d: their number n, and y_offset
                 \* before the first of them, y0
    drawnScene   \* the scene (models, Pan State) the log was drawn from

vars == <<models, x_offset, y_offset, z_offset, deltaTime, gameClock, running,
          pc, gl, log, keys, frame, ops, inputs, inputPan, prevInputPan, upRun,
          drawnScene>>

---------------------------------------------------------------------------
(* Bounds of the exploration *)

\* calls on the scene (add_model, draw) plus iterations of run()'s loop
MaxOps == 3

---------------------------------------------------------------------------
(* Exact arithmetic on numbers (a + b*sqrt(2)) / d *)

Abs(n) == IF n < 0 THEN -n ELSE n

RECURSIVE GCD(_, _)
GCD(m, n) == IF n = 0 THEN m ELSE GCD(n, m % n)

Norm(a, b, d) ==
    LET g == GCD(GCD(Abs(a), Abs(b)), d)
    IN  <<a \div g, b \div g, d \div g>>

\* the decimal literal n/d
Dec(n, d) == Norm(n, 0, d)

Zero == Dec(0, 1)
One == Dec(1, 1)

Add(x, y) == Norm(x[1] * y[3] + y[1] * x[3], x[2] * y[3] + y[2] * x[3], x[3] * y[3])
Neg(x) == <<-x[1], -x[2], x[3]>>
Sub(x, y) == Add(x, Neg(y))
Mul(x, y) == Norm(x[1] * y[1] + 2 * x[2] * y[2], x[1] * y[2] + x[2] * y[1], x[3] * y[3])

\* cosine and sine of an angle in degrees, a multiple of 45
CosDeg(deg) ==
    CASE deg % 360 \in {0} -> One
      [] deg % 360 \in {45, 315} -> <<0, 1, 2>>
      [] deg % 360 \in {90, 270} -> Zero
      [] deg % 360 \in {135, 225} -> <<0, -1, 2>>
      [] deg % 360 \in {180} -> Neg(One)

SinDeg(deg) == CosDeg(deg - 90)

Vec(x, y, z) == <<x, y, z>>
VAdd(u, v) == <<Add(u[1], v[1]), Add(u[2], v[2]), Add(u[3], v[3])>>
VScale(s, v) == <<Mul(s, v[1]), Mul(s, v[2]), Mul(s, v[3])>>
\* v rotated by deg degrees about the z axis
VRotateZ(deg, v) ==
    <<Sub(Mul(CosDeg(deg), v[1]), Mul(SinDeg(deg), v[2])),
      Add(Mul(SinDeg(deg), v[1]), Mul(CosDeg(deg), v[2])),
      v[3]>>

---------------------------------------------------------------------------
(* The modelview matrix.  The program only translates, rotates about the  *)
(* z axis and scales uniformly, so the matrix is                           *)
(*      | xx xy 0  tx |                                                    *)
(*      | yx yy 0  ty |                                                    *)
(*      | 0  0  zz tz |                                                    *)

Identity ==
    [xx |-> One, xy |-> Zero, yx |-> Zero, yy |-> One, zz |-> One,
     tx |-> Zero, ty |-> Zero, tz |-> Zero]

\* M * T(x, y, z)
MTranslate(m, x, y, z) ==
    [m EXCEPT !.tx = Add(m.tx, Add(Mul(m.xx, x), Mul(m.xy, y))),
              !.ty = Add(m.ty, Add(Mul(m.yx, x), Mul(m.yy, y))),
              !.tz = Add(m.tz, Mul(m.zz, z))]

\* M * Rz(deg)
MRotateZ(m, deg) ==
    [m EXCEPT !.xx = Add(Mul(m.xx, CosDeg(deg)), Mul(m.xy, SinDeg(deg))),
              !.xy = Sub(Mul(m.xy, CosDeg(deg)), Mul(m.xx, SinDeg(deg))),
              !.yx = Add(Mul(m.yx, CosDeg(deg)), Mul(m.yy, SinDeg(deg))),
              !.yy = Sub(Mul(m.yy, CosDeg(deg)), Mul(m.yx, SinDeg(deg)))]

\* M * S(s, s, s)
MScale(m, s) ==
    [m EXCEPT !.xx = Mul(m.xx, s), !.xy = Mul(m.xy, s),
              !.yx = Mul(m.yx, s), !.yy = Mul(m.yy, s),
              !.zz = Mul(m.zz, s)]

\* the translation column: where the local origin lands
Origin(m) == <<m.tx, m.ty, m.tz>>

---------------------------------------------------------------------------
(* The OpenGL context as the draw pass sees it.  An environment e holds   *)
(* the matrix stack (current matrix last), the current colour, the calls  *)
(* logged so far and the three Pan State globals.  Each GL call changes   *)
(* the context and logs itself with the context it leaves: depth and top  *)
(* of the stack, current colour, and the Pan State at the time of the     *)
(* call.  node is the path of the model making the call: <<i>> for         *)
(* models[i], <<i, j>> for its j-th component, and so on.                  *)

White == Vec(One, One, One)

\* F applied to the value of v: v is evaluated once, before F's body
Strict(v, F(_)) == CHOOSE out \in {F(x) : x \in {v}} : TRUE

Top(e) == e.stack[Len(e.stack)]

Logged(e, op, node, args) ==
    [e EXCEPT !.calls = Append(@,
        [op |-> op, node |-> node, args |-> args,
         depth |-> Len(e.stack), top |-> Top(e), color |-> e.color,
         off |-> <<e.x_offset, e.y_offset, e.z_offset>>])]

glClear(e) ==
    Strict(e, LAMBDA c : Logged(c, "glClear", <<>>, <<>>))

flip(e) ==
    Strict(e, LAMBDA c : Logged(c, "flip", <<>>, <<>>))

glPushMatrix(e, node) ==
    Strict(e, LAMBDA c :
        Logged([c EXCEPT !.stack = Append(@, Top(c))], "glPushMatrix", node, <<>>))

\* popping the last matrix is GL_STACK_UNDERFLOW and leaves the stack alone
glPopMatrix(e, node) ==
    Strict(e, LAMBDA c :
        Logged(IF Len(c.stack) > 1
               THEN [c EXCEPT !.stack = SubSeq(@, 1, Len(@) - 1)]
               ELSE c,
               "glPopMatrix", node, <<>>))

glTranslate(e, node, x, y, z) ==
    Strict(e, LAMBDA c :
        Logged([c EXCEPT !.stack[Len(c.stack)] = MTranslate(@, x, y, z)],
               "glTranslate", node, <<x, y, z>>))

\* always called with the axis (0, 0, 1)
glRotate(e, node, angle) ==
    Strict(e, LAMBDA c :
        Logged([c EXCEPT !.stack[Len(c.stack)] = MRotateZ(@, angle)],
               "glRotate", node, <<Dec(angle, 1), Zero, Zero, One>>))

glScale(e, node, s) ==
    Strict(e, LAMBDA c :
        Logged([c EXCEPT !.stack[Len(c.stack)] = MScale(@, s)],
               "glScale", node, <<s, s, s>>))

glColor(e, node, color) ==
    Strict(e, LAMBDA c : Logged([c EXCEPT !.color = color], "glColor", node, color))

glBegin(e, node) ==
    Strict(e, LAMBDA c : Logged(c, "glBegin", node, <<>>))

glVertex(e, node, v) ==
    Strict(e, LAMBDA c : Logged(c, "glVertex", node, v))

glEnd(e, node) ==
    Strict(e, LAMBDA c : Logged(c, "glEnd", node, <<>>))

---------------------------------------------------------------------------
(* The model classes.  An object is a record of its attributes; vertices  *)
(* is <<>> for a class that sets none, components likewise.                *)

DefaultVertices ==
    <<Vec(Zero, One, Zero), Vec(Zero, Zero, Zero), Vec(One, One, Zero)>>

BaseModel(position, orientation, scale, color) ==
    [class |-> "BaseModel", position |-> position, orientation |-> orientation,
     scale |-> scale, color |-> color, vertices |-> <<>>, components |-> <<>>]

TriangleModel(position, orientation, scale, color, vertices) ==
    [BaseModel(position, orientation, scale, color)
        EXCEPT !.class = "TriangleModel", !.vertices = vertices]

TreeComponents ==
    <<TriangleModel(Vec(Zero, Zero, Zero), -45, Dec(5, 10),
                    Vec(Zero, One, Zero), DefaultVertices),
      TriangleModel(Vec(Zero, Dec(25, 100), Zero), -45, Dec(5, 10),
                    Vec(Zero, One, Zero), DefaultVertices),
      TriangleModel(Vec(Zero, Dec(5, 10), Zero), -45, Dec(5, 10),
                    Vec(Zero, One, Zero), DefaultVertices),
      TriangleModel(Vec(Dec(25, 100), Dec(-25, 100), Zero), 0, Dec(25, 100),
                    Vec(Dec(6, 10), Dec(2, 10), Dec(2, 10)), DefaultVertices),
      TriangleModel(Vec(Dec(5, 10), Zero, Zero), -180, Dec(25, 100),
                    Vec(Dec(6, 10), Dec(2, 10), Dec(2, 10)), DefaultVertices)>>

Tree(position, orientation, scale) ==
    [BaseModel(position, orientation, scale, White)
        EXCEPT !.class = "Tree", !.components = TreeComponents]

WallVertices ==
    <<Vec(Zero, Zero, Zero), Vec(One, Dec(12, 10), Zero), Vec(Zero, Dec(12, 10), Zero)>>

DoorVertices ==
    <<Vec(Zero, Zero, Zero), Vec(One, Dec(15, 10), Zero), Vec(Zero, Dec(15, 10), Zero)>>

RoofVertices ==
    <<Vec(Zero, Zero, Zero), Vec(Dec(5, 10), Dec(7, 10), Zero), Vec(One, Zero, Zero)>>

Grey == Vec(Dec(8, 10), Dec(8, 10), Dec(8, 10))
Blue == Vec(Dec(2, 10), Dec(2, 10), Dec(6, 10))
Brown == Vec(Dec(6, 10), Dec(2, 10), Dec(2, 10))
Red == Vec(Dec(9, 10), Dec(2, 10), Dec(2, 10))

HouseComponents ==
    <<TriangleModel(Vec(Zero, Dec(-25, 100), Zero), 0, Dec(5, 10), Grey, WallVertices),
      TriangleModel(Vec(Dec(5, 10), Dec(35, 100), Zero), 180, Dec(5, 10), Grey, WallVertices),
      TriangleModel(Vec(Dec(25, 1000), Dec(125, 1000), Zero), 0, Dec(15, 100), Blue, WallVertices),
      TriangleModel(Vec(Dec(175, 1000), Dec(305, 1000), Zero), 180, Dec(15, 100), Blue, WallVertices),
      TriangleModel(Vec(Dec(325, 1000), Dec(125, 1000), Zero), 0, Dec(15, 100), Blue, WallVertices),
      TriangleModel(Vec(Dec(475, 1000), Dec(305, 1000), Zero), 180, Dec(15, 100), Blue, WallVertices),
      TriangleModel(Vec(Dec(175, 1000), Dec(-25, 100), Zero), 0, Dec(15, 100), Brown, DoorVertices),
      TriangleModel(Vec(Dec(325, 1000), Dec(-25, 1000), Zero), 180, Dec(15, 100), Brown, DoorVertices),
      TriangleModel(Vec(Dec(-5, 100), Dec(35, 100), Zero), 0, Dec(6, 10), Red, RoofVertices)>>

House(position, orientation, scale) ==
    [BaseModel(position, orientation, scale, White)
        EXCEPT !.class = "House", !.components = HouseComponents]

---------------------------------------------------------------------------
(* Drawing.  The environment is threaded through the calls in program    *)
(* order; Strict makes each call finish before the next one starts.        *)

applyParameters(e, self, node) ==
    Strict(e, LAMBDA c :
        LET e1 == glTranslate(c, node,
                              Add(self.position[1], c.x_offset),
                              Add(self.position[2], c.y_offset),
                              Add(self.position[3], c.z_offset))
            e2 == glRotate(e1, node, self.orientation)
            e3 == glScale(e2, node, self.scale)
        IN  glColor(e3, node, self.color))

\* for vertex in self.vertices: glVertex(vertex), from the i-th on
RECURSIVE EmitVertices(_, _, _, _)
EmitVertices(e, self, node, i) ==
    IF i > Len(self.vertices) THEN e
    ELSE EmitVertices(glVertex(e, node, self.vertices[i]), self, node, i + 1)

BaseModel_draw(e, self, node) ==
    LET e1 == glPushMatrix(e, node)
        e2 == applyParameters(e1, self, node)
        e3 == glBegin(e2, node)
        e4 == EmitVertices(e3, self, node, 1)
        e5 == glEnd(e4, node)
    IN  glPopMatrix(e5, node)

RECURSIVE draw(_, _, _)

\* for component in self.components: component.draw(), from the i-th on
RECURSIVE DrawComponents(_, _, _, _)
DrawComponents(e, self, node, i) ==
    IF i > Len(self.components) THEN e
    ELSE Strict(draw(e, self.components[i], Append(node, i)),
                LAMBDA drawn : DrawComponents(drawn, self, node, i + 1))

\* faulty variant of Tree.draw: the glPopMatrix is left out
Tree_draw_NoPop(e, self, node) ==
    LET e1 == glPushMatrix(e, node)
        e2 == applyParameters(e1, self, node)
    IN  DrawComponents(e2, self, node, 1)

Tree_draw(e, self, node) ==
    LET e1 == glPushMatrix(e, node)
        e2 == applyParameters(e1, self, node)
        e3 == DrawComponents(e2, self, node, 1)
    IN  glPopMatrix(e3, node)

\* faulty variant of House.draw: the glPopMatrix is left out
House_draw_NoPop(e, self, node) ==
    LET e1 == glPushMatrix(e, node)
        e2 == applyParameters(e1, self, node)
    IN  DrawComponents(e2, self, node, 1)

House_draw(e, self, node) ==
    LET e1 == glPushMatrix(e, node)
        e2 == applyParameters(e1, self, node)
        e3 == DrawComponents(e2, self, node, 1)
    IN  glPopMatrix(e3, node)

\* model.draw(): the method of the object's class
draw(e, model, node) ==
    CASE model.class = "Tree" -> Tree_draw(e, model, node)
      [] model.class = "House" -> House_draw(e, model, node)
      [] OTHER -> BaseModel_draw(e, model, node)

\* faulty variant of the loop of Scene.draw: the list is walked backwards
RECURSIVE DrawModels_Reversed(_, _, _)
DrawModels_Reversed(e, ms, i) ==
    IF i > Len(ms) THEN e
    ELSE Strict(draw(e, ms[Len(ms) + 1 - i], <<Len(ms) + 1 - i>>),
                LAMBDA drawn : DrawModels_Reversed(drawn, ms, i + 1))

\* for model in self.models: model.draw(), from the i-th on
RECURSIVE DrawModels(_, _, _)
DrawModels(e, ms, i) ==
    IF i > Len(ms) THEN e
    ELSE Strict(draw(e, ms[i], <<i>>), LAMBDA drawn : DrawModels(drawn, ms, i + 1))

\* faulty variant of Scene.draw: the pass moves the Pan State itself
Scene_draw_Panning(e, ms) ==
    LET e1 == glClear(e)
        e2 == Strict(e1, LAMBDA c :
                  DrawModels([c EXCEPT !.y_offset = Sub(@, Dec(25, 100))], ms, 1))
    IN  flip(e2)

Scene_draw(e, ms) ==
    LET e1 == glClear(e)
        e2 == DrawModels(e1, ms, 1)
    IN  flip(e2)

---------------------------------------------------------------------------
(* Input handling and the frame clock *)

Keys == {"K_UP", "K_DOWN", "K_LEFT", "K_RIGHT"}

\* faulty variant of Scene.handleInput: elif instead of the second if
Scene_handleInput_Elif(x, y, pressed, dt) ==
    LET step == Mul(Dec(25, 100), dt)
        y1 == IF "K_UP" \in pressed THEN Sub(y, step)
              ELSE IF "K_DOWN" \in pressed THEN Add(y, step) ELSE y
        x1 == IF "K_LEFT" \in pressed THEN Add(x, step)
              ELSE IF "K_RIGHT" \in pressed THEN Sub(x, step) ELSE x
    IN  <<x1, y1>>

\* the new <<x_offset, y_offset>> after handleInput() with the keys in
\* pressed held down and deltaTime = dt
Scene_handleInput(x, y, pressed, dt) ==
    LET step == Mul(Dec(25, 100), dt)
        y1 == IF "K_UP" \in pressed THEN Sub(y, step) ELSE y
        y2 == IF "K_DOWN" \in pressed THEN Add(y1, step) ELSE y1
        x1 == IF "K_LEFT" \in pressed THEN Add(x, step) ELSE x
        x2 == IF "K_RIGHT" \in pressed THEN Sub(x1, step) ELSE x1
    IN  <<x2, y2>>

\* deltaTime = gameClock.get_time()/1000
ClockSeconds(ms) == Dec(ms, 1000)

\* milliseconds gameClock.tick() may measure between two ticks
TickMs == {20}

---------------------------------------------------------------------------
(* The objects handed to add_model.  add_model takes any object with a    *)
(* draw() method; besides Tree, House and TriangleModel objects as their  *)
(* constructors leave them, the scene may be given a Tree or House whose  *)
(* components attribute the caller has assigned.                           *)

WithComponents(object, components) == [object EXCEPT !.components = components]

TreeA == Tree(Vec(One, Zero, Zero), 0, Dec(2, 10))

HouseA == House(Vec(Dec(-3, 1), Dec(25, 10), Zero), 0, Dec(2, 10))

TriangleA ==
    TriangleModel(Vec(Zero, Dec(-1, 1), Zero), 90, Dec(2, 1), Red, DefaultVertices)

\* a triangle given two vertices only
TriangleB ==
    TriangleModel(Vec(Dec(2, 1), Zero, Zero), 0, One, Blue,
                  <<Vec(Zero, Zero, Zero), Vec(One, Zero, Zero)>>)

\* position (1,0,0), orientation 0, scale 2, one primitive at (0,1,0)
CompositeA ==
    WithComponents(Tree(Vec(One, Zero, Zero), 0, Dec(2, 1)),
        <<TriangleModel(Vec(Zero, One, Zero), 0, One, White, DefaultVertices)>>)

\* a composite without components
CompositeB == WithComponents(House(Vec(Zero, Dec(2, 1), Zero), 180, Dec(5, 10)), <<>>)

\* a composite in a composite, next to an empty composite and a primitive
CompositeC ==
    WithComponents(Tree(Vec(Dec(-1, 1), One, Zero), 90, Dec(3, 1)),
        <<WithComponents(House(Vec(Zero, Dec(5, 10), Zero), -45, Dec(5, 10)),
              <<TriangleModel(Vec(One, One, Zero), 45, Dec(2, 1), Brown, WallVertices)>>),
          WithComponents(Tree(Vec(One, Zero, Zero), 0, One), <<>>),
          TriangleModel(Vec(Zero, Dec(-2, 1), Zero), 180, One, Grey, RoofVertices)>>)

ModelInputs ==
    {TreeA, HouseA, TriangleA, TriangleB, CompositeA, CompositeB, CompositeC}

---------------------------------------------------------------------------
(* The program *)

Pan == <<x_offset, y_offset, z_offset>>

Init ==
    /\ models = <<>>
    /\ x_offset = Zero
    /\ y_offset = Zero
    /\ z_offset = Zero
    /\ deltaTime = Dec(1666, 100)
    /\ gameClock = 0
    /\ running = FALSE
    /\ pc = "setup"
    /\ gl = [stack |-> <<Identity>>, color |-> White]
    /\ log = <<>>
    /\ keys = {}
    /\ frame = 0
    /\ ops = 0
    /\ inputs = 0
    /\ inputPan = Pan
    /\ prevInputPan = Pan
    /\ upRun = [n |-> 0, d |-> Zero, y0 |-> Zero]
    /\ drawnScene = <<>>

\* the environment a draw pass starts in
Env ==
    [stack |-> gl.stack, color |-> gl.color, calls |-> <<>>,
     x_offset |-> x_offset, y_offset |-> y_offset, z_offset |-> z_offset]

\* the effect of one self.draw()
DrawPass ==
    \E e \in {Scene_draw(Env, models)} :
        /\ gl' = [stack |-> e.stack, color |-> e.color]
        /\ log' = e.calls
        /\ x_offset' = e.x_offset
        /\ y_offset' = e.y_offset
        /\ z_offset' = e.z_offset
        /\ drawnScene' = <<models, Pan>>
        /\ UNCHANGED <<models, deltaTime, gameClock, running, keys, frame,
                       inputs, inputPan, prevInputPan, upRun>>

\* scene.add_model(model), before run()
AddModel ==
    /\ pc = "setup"
    /\ ops < MaxOps
    /\ \E model \in ModelInputs : models' = Append(models, model)
    /\ ops' = ops + 1
    /\ UNCHANGED <<x_offset, y_offset, z_offset, deltaTime, gameClock, running,
                   pc, gl, log, keys, frame, inputs, inputPan, prevInputPan,
                   upRun, drawnScene>>

\* scene.draw() called on its own, before run()
Draw ==
    /\ pc = "setup"
    /\ ops < MaxOps
    /\ DrawPass
    /\ ops' = ops + 1
    /\ UNCHANGED pc

\* scene.run() is entered: running = True
Run ==
    /\ pc = "setup"
    /\ running' = TRUE
    /\ pc' = "poll"
    /\ UNCHANGED <<models, x_offset, y_offset, z_offset, deltaTime, gameClock,
                   gl, log, keys, frame, ops, inputs, inputPan, prevInputPan,
                   upRun, drawnScene>>

\* while running: for event in pygame.event.get(): QUIT clears running
RunPoll ==
    /\ pc = "poll"
    /\ ops < MaxOps
    /\ \E quit \in BOOLEAN : running' = IF quit THEN FALSE ELSE running
    /\ frame' = frame + 1
    /\ ops' = ops + 1
    /\ pc' = "draw"
    /\ UNCHANGED <<models, x_offset, y_offset, z_offset, deltaTime, gameClock,
                   gl, log, keys, inputs, inputPan, prevInputPan, upRun,
                   drawnScene>>

\* self.draw()
RunDraw ==
    /\ pc = "draw"
    /\ DrawPass
    /\ pc' = "input"
    /\ UNCHANGED ops

\* self.handleInput()
RunHandleInput ==
    /\ pc = "input"
    /\ \E pressed \in SUBSET Keys :
         LET xy == Scene_handleInput(x_offset, y_offset, pressed, deltaTime)
         IN  /\ x_offset' = xy[1]
             /\ y_offset' = xy[2]
             /\ keys' = pressed
             /\ inputPan' = <<xy[1], xy[2], z_offset>>
             /\ upRun' = IF pressed # {"K_UP"}
                            THEN [n |-> 0, d |-> Zero, y0 |-> Zero]
                          ELSE IF upRun.n > 0 /\ upRun.d = deltaTime
                            THEN [upRun EXCEPT !.n = @ + 1]
                          ELSE [n |-> 1, d |-> deltaTime, y0 |-> y_offset]
    /\ prevInputPan' = inputPan
    /\ inputs' = inputs + 1
    /\ pc' = "tick"
    /\ UNCHANGED <<models, z_offset, deltaTime, gameClock, running, gl, log,
                   frame, ops, drawnScene>>

\* gameClock.tick(); deltaTime = gameClock.get_time()/1000; back to the
\* loop test
RunTick ==
    /\ pc = "tick"
    /\ \E ms \in TickMs :
         /\ gameClock' = ms
         /\ deltaTime' = ClockSeconds(ms)
    /\ pc' = IF running THEN "poll" ELSE "stopped"
    /\ UNCHANGED <<models, x_offset, y_offset, z_offset, running, gl, log,
                   keys, frame, ops, inputs, inputPan, prevInputPan, upRun,
                   drawnScene>>

Next ==
    \/ AddModel
    \/ Draw
    \/ Run
    \/ RunPoll
    \/ RunDraw
    \/ RunHandleInput
    \/ RunTick

Spec == Init /\ [][Next]_vars

---------------------------------------------------------------------------
(* Reading the call log *)

Idx == DOMAIN log

\* the models that made a call in the logged draw pass
Nodes == {log[i].node : i \in Idx} \ {<<>>}

PushesOf(n) == {i \in Idx : log[i].op = "glPushMatrix" /\ log[i].node = n}

PopsOf(n) == {i \in Idx : log[i].op = "glPopMatrix" /\ log[i].node = n}

VertexIdx == {i \in Idx : log[i].op = "glVertex"}

\* the path of the sibling drawn right after n
NextSibling(n) == [n EXCEPT ![Len(n)] = @ + 1]

IsVertex(call) == call.op = "glVertex"

\* the glVertex calls of the log, in order
Vertices == SelectSeq(log, IsVertex)

\* path p comes no later than path q in depth-first, list order
LexLeq(p, q) ==
    \/ /\ Len(p) <= Len(q)
       /\ \A k \in 1..Len(p) : p[k] = q[k]
    \/ \E k \in 1..Len(p) :
          /\ k <= Len(q)
          /\ p[k] < q[k]
          /\ \A h \in 1..(k - 1) : p[h] = q[h]

\* the calls of a log without the context they left
Calls(l) == [i \in DOMAIN l |-> <<l[i].op, l[i].node, l[i].args>>]

\* the vertices of a log as rendered: vertex, transform and colour in effect
Rendered(l) ==
    [i \in DOMAIN l |->
        IF l[i].op = "glVertex" THEN <<l[i].args, l[i].top, l[i].color>> ELSE <<>>]

NoPan == <<Zero, Zero, Zero>>

\* the states a draw pass returns to: a direct call returns to the setup,
\* the call in run() to the point before handleInput(); the log changes
\* nowhere else
AfterDraw == pc \in {"setup", "input"}

---------------------------------------------------------------------------
(* C1.  Every draw() of a draw pass, of a primitive or a composite at any *)
(* depth, makes exactly one glPushMatrix and one glPopMatrix, the pop      *)
(* after the push and matching it; when it returns the matrix stack has    *)
(* the depth and the top it had right before the call; and a model starts  *)
(* drawing under the same stack as the sibling drawn before it.  Stated   *)
(* of the log where a draw pass has returned.                              *)
C1_StackBalanced ==
    /\ gl.stack = <<Identity>>
    /\ AfterDraw => \A n \in Nodes :
          /\ Cardinality(PushesOf(n)) = 1
          /\ Cardinality(PopsOf(n)) = 1
          /\ \A i \in PushesOf(n), j \in PopsOf(n) :
                /\ 1 < i /\ i < j
                /\ log[j].depth = log[i - 1].depth
                /\ log[j].top = log[i - 1].top
                /\ \A k \in i..(j - 1) : log[k].depth > log[i - 1].depth
                /\ \A k \in Idx : log[k].node = n => (i <= k /\ k <= j)
    /\ AfterDraw => \A n \in Nodes :
          NextSibling(n) \in Nodes =>
             \A i \in PushesOf(n), k \in PushesOf(NextSibling(n)) :
                /\ 1 < i /\ i < k
                /\ log[k - 1].depth = log[i - 1].depth
                /\ log[k - 1].top = log[i - 1].top

\* a pass under a non-zero Pan State has drawn a composite nested in a
\* composite, and a composite without components (its glColor is followed
\* at once by its glPopMatrix)
C1_Witness ==
    /\ \E i \in Idx : Len(log[i].node) = 3 /\ log[i].op = "glVertex"
    /\ \E i \in Idx :
          /\ i < Len(log)
          /\ log[i].op = "glColor"
          /\ log[i + 1].op = "glPopMatrix"
          /\ log[i + 1].node = log[i].node
    /\ \E i \in Idx : log[i].off # NoPan

---------------------------------------------------------------------------
(* C6.  A draw pass is one glClear, then the calls of the models in the   *)
(* order of the models list, the triangles of a composite depth-first in   *)
(* list order, then one flip; every model of the list is drawn.  Stated   *)
(* of the log where a draw pass has returned.                              *)
C6_DrawOrder ==
    (AfterDraw /\ log # <<>>) =>
       /\ \A i \in Idx : (log[i].op = "glClear") <=> (i = 1)
       /\ \A i \in Idx : (log[i].op = "flip") <=> (i = Len(log))
       /\ \A i \in Idx : (log[i].node = <<>>) <=> (i = 1 \/ i = Len(log))
       /\ \A i \in 2..(Len(log) - 2) : log[i].node[1] <= log[i + 1].node[1]
       /\ \A k \in 1..(Len(Vertices) - 1) :
             LexLeq(Vertices[k].node, Vertices[k + 1].node)
       /\ \A m \in 1..Len(drawnScene[1]) : PushesOf(<<m>>) # {}

\* two models with triangles, the first a composite, have been drawn
C6_Witness ==
    /\ Len(models) >= 2
    /\ drawnScene # <<>>
    /\ drawnScene[1] = models
    /\ \E i \in VertexIdx, j \in VertexIdx :
          /\ log[i].node[1] = 1 /\ Len(log[i].node) = 2
          /\ log[j].node[1] = 2

---------------------------------------------------------------------------
(* C4.  The Pan State is what the last handleInput() left (the initial    *)
(* zero before the first), and handleInput() has run once in each earlier  *)
(* iteration of run() when the draw pass of an iteration starts.  Every    *)
(* call of that pass is made under the Pan State the handleInput of the    *)
(* iteration before left, and the translation of each top-level model is   *)
(* its position plus that value; the pass of an iteration is not the one   *)
(* that shows what the handleInput of the same iteration did.              *)
DrawnUnder(pan) ==
    /\ drawnScene = <<models, pan>>
    /\ \A i \in Idx : log[i].off = pan
    /\ \A i \in Idx :
          (log[i].op = "glTranslate" /\ Len(log[i].node) = 1) =>
             log[i].args = VAdd(models[log[i].node[1]].position, pan)

C4_PanPerFrame ==
    /\ Pan = inputPan
    /\ inputs = IF pc \in {"draw", "input"} THEN frame - 1 ELSE frame
    /\ (frame >= 1 /\ pc = "input") => DrawnUnder(inputPan)
    /\ (frame >= 1 /\ pc \in {"tick", "poll", "stopped"}) => DrawnUnder(prevInputPan)

\* the second iteration has drawn models under the non-zero Pan State the
\* keys held in the first iteration left, and its own handleInput has moved
\* the Pan State again
C4_Witness ==
    /\ frame = 2
    /\ pc = "tick"
    /\ prevInputPan # NoPan
    /\ inputPan # prevInputPan
    /\ \E i \in Idx : log[i].op = "glTranslate" /\ log[i].off = prevInputPan

---------------------------------------------------------------------------
(* C5.  Each handleInput() moves the Pan State by the sum of the steps of *)
(* the keys held: 0.25*deltaTime times (DOWN - UP) on y and times          *)
(* (LEFT - RIGHT) on x, nothing on z; so nothing when no key is held; no   *)
(* other step moves it; and K_UP alone held over n consecutive calls with  *)
(* the same deltaTime d lowers y_offset by n*0.25*d.                       *)
Held(pressed, key) == IF key \in pressed THEN 1 ELSE 0

PanStep(pressed, dt) ==
    <<Mul(Dec(Held(pressed, "K_LEFT") - Held(pressed, "K_RIGHT"), 4), dt),
      Mul(Dec(Held(pressed, "K_DOWN") - Held(pressed, "K_UP"), 4), dt),
      Zero>>

C5_PanAccumulates ==
    /\ [](upRun.n > 0 => y_offset = Sub(upRun.y0, Mul(Dec(upRun.n, 4), upRun.d)))
    /\ [][ /\ inputs' = inputs + 1 =>
                <<x_offset', y_offset', z_offset'>> = VAdd(Pan, PanStep(keys', deltaTime))
           /\ inputs' = inputs => <<x_offset', y_offset', z_offset'>> = Pan
         ]_vars

\* K_UP alone was held in two consecutive iterations, both with the
\* deltaTime the clock measured, and y_offset went down
C5_Witness ==
    /\ upRun.n = 2
    /\ upRun.d = ClockSeconds(20)
    /\ y_offset = Sub(upRun.y0, Dec(1, 100))
    /\ y_offset # upRun.y0

---------------------------------------------------------------------------
(* C9.  A draw pass changes neither the models list nor the Pan State,    *)
(* and a pass over the scene the last pass was drawn from makes the same   *)
(* calls with the same arguments and renders every vertex under the same   *)
(* transform and colour as that pass.                                      *)
C9_DrawIdempotent ==
    [][ /\ (pc = "draw" \/ log' # log \/ drawnScene' # drawnScene) =>
              /\ models' = models
              /\ <<x_offset', y_offset', z_offset'>> = Pan
        /\ (log' # log /\ drawnScene = <<models, Pan>>) =>
              /\ Calls(log') = Calls(log)
              /\ Rendered(log') = Rendered(log)
      ]_vars

\* the second iteration has drawn the scene the first one drew (no key was
\* held in between); the scene has triangles, and the first pass left a
\* colour other than the initial one behind
C9_Witness ==
    /\ frame = 2
    /\ pc = "input"
    /\ keys = {}
    /\ models # <<>>
    /\ drawnScene = <<models, Pan>>
    /\ VertexIdx # {}
    /\ gl.color # White

---------------------------------------------------------------------------
(* C2.  A primitive at local position p in a top-level composite at       *)
(* position P with orientation O and scale S has its geometry drawn at     *)
(* S*(rotate(O)*p) + P + PanState: the pan is added once, unscaled.        *)
C2_Claim ==
    \A i \in Idx :
       (log[i].op = "glTranslate" /\ Len(log[i].node) = 2) =>
          LET parent == drawnScene[1][log[i].node[1]]
              child == parent.components[log[i].node[2]]
          IN  child.class = "TriangleModel" =>
                 Origin(log[i].top) =
                    VAdd(VAdd(VScale(parent.scale,
                                     VRotateZ(parent.orientation, child.position)),
                              parent.position),
                         log[i].off)

---------------------------------------------------------------------------
(* C3.  draw() and handleInput() run only in iterations of run() whose    *)
(* event poll saw no QUIT event.                                           *)
C3_Claim == pc \in {"input", "tick"} => running

---------------------------------------------------------------------------
(* C7.  When the draw() of a composite returns, the current colour is the *)
(* colour that was current right before the call.                          *)
C7_Claim ==
    \A n \in Nodes :
       (\A k \in Idx : log[k].node = n => log[k].op # "glBegin") =>
          \A i \in PushesOf(n), j \in PopsOf(n) :
             i > 1 => log[j].color = log[i - 1].color

---------------------------------------------------------------------------
(* C8.  No primitive with a vertex count other than 3 exists to be drawn: *)
(* every draw of a primitive emits exactly 3 vertices.                     *)
C8_Claim ==
    \A n \in Nodes :
       (\E k \in Idx : log[k].node = n /\ log[k].op = "glBegin") =>
          Cardinality({i \in VertexIdx : log[i].node = n}) = 3

---------------------------------------------------------------------------
(* C10.  In every iteration of run(), the deltaTime handleInput() uses is *)
(* the frame clock's elapsed milliseconds divided by 1000.                 *)
C10_Claim == pc = "input" => deltaTime = ClockSeconds(gameClock)

===========================================================================
